---- MODULE Spec2Model ----
(***************************************************************************)
(* A model of the CRT display component (src/components/RetroScreen.tsx)   *)
(* and of the state of its host (src/App.tsx).                             *)
(*                                                                         *)
(* Time is in milliseconds.  Every pending setTimeout and every pending d3 *)
(* transition carries the time that remains before it resolves ("rem");    *)
(* Elapse moves time forward to the next pending event, and an event whose *)
(* rem is 0 resolves.                                                      *)
(***************************************************************************)
EXTENDS Integers, Sequences, FiniteSets, TLC

\* ------------------------------------------------------------------------
\* Bounds of the model
\* ------------------------------------------------------------------------
MaxPoints == 2        \* clicks accumulated in customPoints
MaxInert == 2         \* zero-length strokes are counted up to this number
MaxLen == 4           \* path lengths of the timing evaluations, in pixels
FrameMs == 16         \* one animation frame: a transition ends no sooner

\* ------------------------------------------------------------------------
\* Values of the inputs
\* ------------------------------------------------------------------------
NaN == -1             \* an omitted numeric prop is undefined; arithmetic on it is NaN

DisplayModes == {"VECTOR", "RASTER"}
ContentModes == {"PRESET", "DRAW", "TEXT"}
Texts == {"VECTOR", ""}
FailingTexts == {"BAD"}         \* texts for which the glyph generator throws
SpeedValues == {5}
SpeedRange == 1..10             \* "beamSpeed (1-10)"
PersistenceValues == {50}
Viewports == {<<140, 140>>}
NarrowViewports == {<<40, 140>>}
ZeroViewports == {<<0, 140>>, <<140, 0>>}
ClickPositions == {<<20, 70>>, <<120, 70>>}

Min(a, b) == IF a < b THEN a ELSE b
Max(a, b) == IF a > b THEN a ELSE b

\* ------------------------------------------------------------------------
\* Numbers: JavaScript arithmetic with NaN, timer and transition durations
\* ------------------------------------------------------------------------
Div(a, b) == IF a = NaN \/ b = NaN THEN NaN ELSE a \div b
Add(a, b) == IF a = NaN \/ b = NaN THEN NaN ELSE a + b

\* setTimeout(r, d): a NaN delay is 0
TimeoutMs(d) == IF d = NaN THEN 0 ELSE d

\* transition.duration(d): the transition ends at the first frame at which
\* elapsed < d is false, which for NaN and 0 is its first frame
TransitionMs(d) == IF d = NaN THEN FrameMs ELSE Max(d, FrameMs)

blankingDelay(bs) == Div(200, bs)
flashWait == 100
interCycleDelay(bs) == Div(100, bs)
scanDuration(bs) == Div(5000, bs)
\* the opacity (in hundredths) the ghosting decay of raster mode ends at
ghostFloor == 20

\* The value a transition of duration d gives an attribute e ms after its
\* start and before its last tick: with easeLinear, from + (to - from) * e / d
\* while e < d.  The first tick at which e < d is false (for NaN, the first
\* tick) is the last one: until then the attribute is as it was set.
Tween(from, to, e, d) ==
    IF d = NaN \/ e >= d THEN from ELSE from + ((to - from) * e) \div d
\* A quotient of the program's arithmetic that is not a whole number is kept
\* as <<numerator, denominator>>, the denominator positive.
Less(p, q) == p[1] * q[2] < q[1] * p[2]
Same(p, q) == p[1] * q[2] = q[1] * p[2]
Floor(p) == p[1] \div p[2]

\* (len * 15) / (beamSpeed * 0.8), for a beamSpeed that is a number
drawDurationTimesSpeed(len, bs) == <<len * 15 * bs * 8, 10>>

drawDurationRatio(len, bs) == <<len * 150, bs * 8>>

\* the same in whole milliseconds
drawDuration(len, bs) == IF bs = NaN THEN NaN ELSE Floor(drawDurationRatio(len, bs))

\* ------------------------------------------------------------------------
\* CoordinateMapper
\* ------------------------------------------------------------------------
margin == 20

\* d3.scaleLinear().domain([0, 100]).range([m, size - m]) at v, as a quotient
ScaleRatio(v, size, m) == <<100 * m + v * (size - 2 * m), 100>>

\* the same with the margin of the component, in whole pixels
Scale(v, size) == Floor(ScaleRatio(v, size, margin))
xScale(v, width) == Scale(v, width)
yScale(v, height) == Scale(v, height)

\* clamp(true): the input is brought into the domain, whichever way round
ClampRatio(x, lo, hi) ==
    IF Less(x, <<lo, 1>>) THEN <<lo, 1>>
    ELSE IF Less(<<hi, 1>>, x) THEN <<hi, 1>>
    ELSE x

\* d3.scaleLinear().domain([m, size - m]).range([0, 100]).clamp(true) at the
\* quotient x, as a quotient (a domain of zero extent maps every input to
\* the middle of the range)
UnscaleRatioNoMargin(x, size, m) ==
    LET xc == ClampRatio(x, 0, size)
    IN  IF size = 0 THEN <<50, 1>> ELSE <<100 * xc[1], xc[2] * size>>

UnscaleRatioNoClamp(x, size, m) ==
    LET extent == size - 2 * m
    IN  IF extent = 0 THEN <<50, 1>>
        ELSE IF extent > 0
             THEN <<100 * (x[1] - m * x[2]), x[2] * extent>>
             ELSE <<100 * (m * x[2] - x[1]), x[2] * (0 - extent)>>

UnscaleRatio(x, size, m) ==
    LET xc == ClampRatio(x, Min(m, size - m), Max(m, size - m))
        extent == size - 2 * m
    IN  IF extent = 0 THEN <<50, 1>>
        ELSE IF extent > 0
             THEN <<100 * (xc[1] - m * xc[2]), xc[2] * extent>>
             ELSE <<100 * (m * xc[2] - xc[1]), xc[2] * (0 - extent)>>

\* the same with the margin of the component at pixel p, in whole units
Unscale(p, size) == Floor(UnscaleRatio(<<p, 1>>, size, margin))

ToDevice(pt, width, height) == <<xScale(pt[1], width), yScale(pt[2], height)>>

RECURSIVE DevicePoints(_, _, _)
DevicePoints(pts, width, height) ==
    IF pts = <<>> THEN <<>>
    ELSE <<ToDevice(Head(pts), width, height)>> \o DevicePoints(Tail(pts), width, height)

\* ------------------------------------------------------------------------
\* Geometry of a rendered path
\* ------------------------------------------------------------------------
\* the integer part of the square root of n
ISqrt(n) == CHOOSE r \in 0..n : r * r <= n /\ n < (r + 1) * (r + 1)

SquaredDist(p, q) == (p[1] - q[1]) * (p[1] - q[1]) + (p[2] - q[2]) * (p[2] - q[2])

\* (the squared distance is a value before its root is taken)
Dist(p, q) == CHOOSE d \in {ISqrt(n) : n \in {SquaredDist(p, q)}} : TRUE

\* SVGPathElement.getTotalLength() of the polyline through dev, in whole pixels
RECURSIVE getTotalLength(_)
getTotalLength(dev) ==
    IF Len(dev) < 2 THEN 0
    ELSE Dist(dev[1], dev[2]) + getTotalLength(Tail(dev))

\* ------------------------------------------------------------------------
\* SceneSource
\* ------------------------------------------------------------------------
SHIP_SHAPE ==
    [id |-> "ship",
     points |-> << <<50, 35>>, <<65, 65>>, <<50, 55>>, <<35, 65>> >>,
     closed |-> TRUE]

\* The glyph generator (../utils/vectorFont) as the black box of the
\* specification: an ordered set of shapes for a text, or a fault.
GeneratorFails(text) == text = "BAD"

textToVectorShapes(text) ==
    IF text = "READY"
    THEN << [id |-> "char-0", points |-> << <<5, 45>>, <<5, 55>>, <<10, 50>> >>, closed |-> TRUE] >>
    ELSE << [id |-> "char-0", points |-> << <<5, 45>>, <<8, 55>> >>, closed |-> FALSE],
            [id |-> "char-1", points |-> <<>>, closed |-> FALSE],
            [id |-> "char-2", points |-> << <<12, 45>>, <<12, 55>>, <<16, 55>> >>, closed |-> FALSE] >>

\* 3. PREPARE CONTENT
PrepareContentKeepPreset(cm, pts, text) ==
    IF cm = "PRESET" THEN <<SHIP_SHAPE>>
    ELSE IF cm = "DRAW"
         THEN IF Len(pts) > 0
              THEN << [id |-> "custom-draw", points |-> pts, closed |-> FALSE] >>
              ELSE <<>>
         ELSE IF GeneratorFails(IF text = "" THEN "READY" ELSE text)
              THEN <<SHIP_SHAPE>>
              ELSE textToVectorShapes(IF text = "" THEN "READY" ELSE text)

PrepareContent(cm, pts, text) ==
    IF cm = "PRESET" THEN <<SHIP_SHAPE>>
    ELSE IF cm = "DRAW"
         THEN IF Len(pts) > 0
              THEN << [id |-> "custom-draw", points |-> pts, closed |-> FALSE] >>
              ELSE <<>>
         ELSE IF GeneratorFails(IF text = "" THEN "READY" ELSE text)
              THEN <<>>
              ELSE textToVectorShapes(IF text = "" THEN "READY" ELSE text)

\* the points a shape is rendered or traced through: a closed shape gets a
\* copy of its first point appended
ClosedPointsOpen(shape) == shape.points

ClosedPoints(shape) ==
    IF shape.closed /\ Len(shape.points) > 0
    THEN Append(shape.points, shape.points[1])
    ELSE shape.points

\* number of shapes rendered by a forEach that skips empty point sequences
RECURSIVE CountRendered(_)
CountRendered(shapes) ==
    IF shapes = <<>> THEN 0
    ELSE (IF Len(Head(shapes).points) = 0 THEN 0 ELSE 1) + CountRendered(Tail(shapes))

RECURSIVE CountVertices(_)
CountVertices(shapes) ==
    IF shapes = <<>> THEN 0
    ELSE Len(ClosedPoints(Head(shapes))) + CountVertices(Tail(shapes))

\* ------------------------------------------------------------------------
\* State
\* ------------------------------------------------------------------------
VARIABLES
    mode,            \* App: display mode
    contentMode,     \* App: content mode
    customPoints,    \* App: points accumulated by clicks in draw mode
    customText,      \* App: text of text mode
    beamSpeed,       \* prop of RetroScreen
    persistence,     \* prop of RetroScreen
    dimensions,      \* RetroScreen: <<width, height>> of the container
    mounted,         \* the component is mounted (FALSE after final teardown)
    run,             \* the closure of the effect run whose cleanup React holds
    old,             \* the closures of earlier runs that a pending callback refers to
    svg,             \* the content of the svg element
    traced,          \* indices of the shapes whose trace began in this cycle (history)
    last,            \* the step taken last (history)
    probe            \* the pointer event or the evaluation observed last (history)

vars == <<mode, contentMode, customPoints, customText, beamSpeed, persistence,
          dimensions, mounted, run, old, svg, traced, last, probe>>

display == <<mode, contentMode, customPoints, customText, beamSpeed, persistence,
             dimensions, mounted, run, old, svg, traced, last>>

inputs == <<mode, contentMode, customPoints, customText, beamSpeed, persistence,
            dimensions>>

\* ------------------------------------------------------------------------
\* Elements of the display
\* ------------------------------------------------------------------------
\* (travelled: how far along the path of length len its transition, of
\* duration dur, has taken the beam)
NoBeam == [present |-> FALSE, opacity |-> 0, cx |-> 0, cy |-> 0, moving |-> FALSE,
           travelled |-> 0, len |-> 0, dur |-> 0]
NoRaster == [present |-> FALSE, paths |-> 0, opacity |-> 100, fading |-> FALSE,
             dur |-> 0, rem |-> 0]
NoScanline == [present |-> FALSE, y |-> 0, sweeping |-> FALSE]

\* svg.selectAll("*").remove()
EmptySvg ==
    [grid |-> FALSE,         \* the background grid group
     vertices |-> 0,         \* helper circles of draw mode
     beam |-> NoBeam,        \* the beam marker
     trails |-> FALSE,       \* the group of fading paths
     strokes |-> <<>>,       \* its children that have a transition or had one
     inert |-> 0,            \* its children that never had one (zero length)
     rasterGroup |-> NoRaster,
     scanline |-> NoScanline]

\* ------------------------------------------------------------------------
\* Runs of the rendering effect
\* ------------------------------------------------------------------------
\* pc: where the run's scheduler is suspended
TimerPcs == {"blank", "flash", "cycle"}           \* in a setTimeout
TransitionPcs == {"trace", "sweep"}               \* in a transition
PendingPcs == TimerPcs \cup TransitionPcs

\* isMounted: the flag of the run; attached: the elements the run created
\* are the ones in the svg
NoRun ==
    [used |-> FALSE, isMounted |-> FALSE, attached |-> FALSE, mode |-> "NONE",
     shapes |-> <<>>, beamSpeed |-> NaN, persistence |-> NaN, width |-> 0,
     height |-> 0, pc |-> "done", idx |-> 0, rem |-> 0]

\* A closure is kept while something can still call into it.  Once its flag
\* is false every entry point returns before it reads a captured value, so
\* only the pending callback is kept of it, and that callback resolves at
\* some later time (whichever: its rem is dropped).
Normalize(rec) ==
    IF rec.isMounted THEN rec
    ELSE IF rec.pc \in PendingPcs
         THEN [NoRun EXCEPT !.used = TRUE, !.attached = rec.attached, !.pc = rec.pc]
         ELSE NoRun

Used(S) == {r \in S : r.used}
Pool == Used({run} \cup old)

\* index of the first shape at or after from that has a point (0: none)
NextShape(shapes, from) ==
    IF \E i \in from..Len(shapes) : Len(shapes[i].points) >= 1
    THEN CHOOSE i \in from..Len(shapes) :
            /\ Len(shapes[i].points) >= 1
            /\ \A j \in from..(i - 1) : Len(shapes[j].points) < 1
    ELSE 0

\* animateVectorCycle from the head of the for-loop at shape from up to its
\* next suspension: the beam is blanked and moved to the start of the next
\* shape that has a point, or the loop ends and the next cycle is scheduled.
ContinueOnce(rec, from, dom) ==
    IF ~rec.isMounted
    THEN [act |-> Normalize([rec EXCEPT !.pc = "done"]), svg |-> dom]
    ELSE LET i == NextShape(rec.shapes, from) IN
         IF i = 0
         THEN [act |-> [rec EXCEPT !.pc = "done", !.idx = 0], svg |-> dom]
         ELSE LET start == ToDevice(ClosedPoints(rec.shapes[i])[1], rec.width, rec.height) IN
              [act |-> [rec EXCEPT !.pc = "blank", !.idx = i,
                                   !.rem = TimeoutMs(blankingDelay(rec.beamSpeed))],
               svg |-> IF rec.attached
                       THEN [dom EXCEPT !.beam.opacity = 0, !.beam.cx = start[1],
                                        !.beam.cy = start[2], !.beam.travelled = 0,
                                        !.beam.len = 0, !.beam.dur = 0]
                       ELSE dom]

ContinueInPlace(rec, from, dom) ==
    IF ~rec.isMounted
    THEN [act |-> Normalize([rec EXCEPT !.pc = "done"]), svg |-> dom]
    ELSE LET i == NextShape(rec.shapes, from) IN
         IF i = 0
         THEN [act |-> [rec EXCEPT !.pc = "cycle", !.idx = 0,
                                   !.rem = TimeoutMs(interCycleDelay(rec.beamSpeed))],
               svg |-> dom]
         ELSE LET start == ToDevice(ClosedPoints(rec.shapes[i])[1], rec.width, rec.height) IN
              [act |-> [rec EXCEPT !.pc = "blank", !.idx = i,
                                   !.rem = TimeoutMs(blankingDelay(rec.beamSpeed)),
                                   !.shapes[i].points = ClosedPoints(rec.shapes[i])],
               svg |-> IF rec.attached
                       THEN [dom EXCEPT !.beam.opacity = 0, !.beam.cx = start[1],
                                        !.beam.cy = start[2], !.beam.travelled = 0,
                                        !.beam.len = 0, !.beam.dur = 0]
                       ELSE dom]

ContinueNoCheck(rec, from, dom) ==
    IF ~rec.used
    THEN [act |-> Normalize([rec EXCEPT !.pc = "done"]), svg |-> dom]
    ELSE LET i == NextShape(rec.shapes, from) IN
         IF i = 0
         THEN [act |-> [rec EXCEPT !.pc = "cycle", !.idx = 0,
                                   !.rem = TimeoutMs(interCycleDelay(rec.beamSpeed))],
               svg |-> dom]
         ELSE LET start == ToDevice(ClosedPoints(rec.shapes[i])[1], rec.width, rec.height) IN
              [act |-> [rec EXCEPT !.pc = "blank", !.idx = i,
                                   !.rem = TimeoutMs(blankingDelay(rec.beamSpeed))],
               svg |-> IF rec.attached
                       THEN [dom EXCEPT !.beam.opacity = 0, !.beam.cx = start[1],
                                        !.beam.cy = start[2], !.beam.travelled = 0,
                                        !.beam.len = 0, !.beam.dur = 0]
                       ELSE dom]

ContinueEarlyCycle(rec, from, dom) ==
    IF ~rec.isMounted
    THEN [act |-> Normalize([rec EXCEPT !.pc = "done"]), svg |-> dom]
    ELSE LET i == NextShape(rec.shapes, from) IN
         IF i = 0 \/ from > 1
         THEN [act |-> [rec EXCEPT !.pc = "cycle", !.idx = 0,
                                   !.rem = TimeoutMs(interCycleDelay(rec.beamSpeed))],
               svg |-> dom]
         ELSE LET start == ToDevice(ClosedPoints(rec.shapes[i])[1], rec.width, rec.height) IN
              [act |-> [rec EXCEPT !.pc = "blank", !.idx = i,
                                   !.rem = TimeoutMs(blankingDelay(rec.beamSpeed))],
               svg |-> IF rec.attached
                       THEN [dom EXCEPT !.beam.opacity = 0, !.beam.cx = start[1],
                                        !.beam.cy = start[2], !.beam.travelled = 0,
                                        !.beam.len = 0, !.beam.dur = 0]
                       ELSE dom]

Continue(rec, from, dom) ==
    IF ~rec.isMounted
    THEN [act |-> Normalize([rec EXCEPT !.pc = "done"]), svg |-> dom]
    ELSE LET i == NextShape(rec.shapes, from) IN
         IF i = 0
         THEN [act |-> [rec EXCEPT !.pc = "cycle", !.idx = 0,
                                   !.rem = TimeoutMs(interCycleDelay(rec.beamSpeed))],
               svg |-> dom]
         ELSE LET start == ToDevice(ClosedPoints(rec.shapes[i])[1], rec.width, rec.height) IN
              [act |-> [rec EXCEPT !.pc = "blank", !.idx = i,
                                   !.rem = TimeoutMs(blankingDelay(rec.beamSpeed))],
               svg |-> IF rec.attached
                       THEN [dom EXCEPT !.beam.opacity = 0, !.beam.cx = start[1],
                                        !.beam.cy = start[2], !.beam.travelled = 0,
                                        !.beam.len = 0, !.beam.dur = 0]
                       ELSE dom]

\* runScanline: the ghosting decay and the sweep are (re)started
runScanlineSweepOnly(rec, dom) ==
    IF ~rec.isMounted
    THEN [act |-> Normalize([rec EXCEPT !.pc = "done"]), svg |-> dom]
    ELSE [act |-> [rec EXCEPT !.pc = "sweep",
                              !.rem = TransitionMs(scanDuration(rec.beamSpeed))],
          svg |-> IF rec.attached
                  THEN [dom EXCEPT !.scanline.y = 0, !.scanline.sweeping = TRUE]
                  ELSE dom]

runScanlineNoReset(rec, dom) ==
    IF ~rec.isMounted
    THEN [act |-> Normalize([rec EXCEPT !.pc = "done"]), svg |-> dom]
    ELSE [act |-> [rec EXCEPT !.pc = "sweep",
                              !.rem = TransitionMs(scanDuration(rec.beamSpeed))],
          svg |-> IF rec.attached
                  THEN [dom EXCEPT
                          !.rasterGroup.fading = TRUE,
                          !.rasterGroup.dur = Add(rec.persistence, scanDuration(rec.beamSpeed)),
                          !.rasterGroup.rem =
                              TransitionMs(Add(rec.persistence, scanDuration(rec.beamSpeed))),
                          !.scanline.y = 0,
                          !.scanline.sweeping = TRUE]
                  ELSE dom]

runScanline(rec, dom) ==
    IF ~rec.isMounted
    THEN [act |-> Normalize([rec EXCEPT !.pc = "done"]), svg |-> dom]
    ELSE [act |-> [rec EXCEPT !.pc = "sweep",
                              !.rem = TransitionMs(scanDuration(rec.beamSpeed))],
          svg |-> IF rec.attached
                  THEN [dom EXCEPT
                          !.rasterGroup.opacity = 100,
                          !.rasterGroup.fading = TRUE,
                          !.rasterGroup.dur = Add(rec.persistence, scanDuration(rec.beamSpeed)),
                          !.rasterGroup.rem =
                              TransitionMs(Add(rec.persistence, scanDuration(rec.beamSpeed))),
                          !.scanline.y = 0,
                          !.scanline.sweeping = TRUE]
                  ELSE dom]

\* ------------------------------------------------------------------------
\* svg.selectAll("*").interrupt(): every transition of an element of the svg
\* is stopped where it is.  The promise of an interrupted beam transition
\* rejects, the rejection is absorbed and the loop goes on to its next
\* iteration; an interrupted sweep never calls its end listener.
\* ------------------------------------------------------------------------
\* (what is kept of a stopped stroke is that it is there)
FreezeStroke(s) ==
    [kind |-> s.kind, idx |-> 0, segs |-> 0, len |-> 0, revealed |-> 0,
     phase |-> "frozen", dur |-> 0, rem |-> 0]

InterruptedSvg(dom) ==
    [dom EXCEPT !.strokes = [k \in DOMAIN dom.strokes |-> FreezeStroke(dom.strokes[k])],
                !.beam.moving = FALSE,
                !.beam.len = 0,
                !.beam.dur = 0,
                !.rasterGroup.fading = FALSE,
                !.rasterGroup.dur = 0,
                !.rasterGroup.rem = 0,
                !.scanline.sweeping = FALSE]

\* The promise of the beam transition, awaited by the loop: end() resolves
\* when the transition ends and rejects when it is interrupted, and the
\* handler given to catch turns the rejection into a resolution.
endNoCatch(interrupted) == IF interrupted THEN "rejected" ELSE "resolved"

endCatch(interrupted) == "resolved"

\* a rejection the loop awaits is thrown in it: the async function ends there
InterruptedAct(rec, dom) ==
    IF rec.pc = "trace" /\ rec.attached
    THEN IF endCatch(TRUE) = "resolved"
         THEN Continue(rec, rec.idx + 1, InterruptedSvg(dom)).act
         ELSE Normalize([rec EXCEPT !.pc = "done"])
    ELSE IF rec.pc = "sweep" /\ rec.attached
         THEN Normalize([rec EXCEPT !.pc = "done"])
         ELSE rec

\* what became of the rejection of the interrupted traces of S
Rejection(S) ==
    IF \A r \in S : ~(r.pc = "trace" /\ r.attached) THEN "none"
    ELSE IF endCatch(TRUE) = "resolved" THEN "absorbed" ELSE "raised"

Interrupt(S, dom) ==
    [runs |-> Used({InterruptedAct(r, dom) : r \in S}), svg |-> InterruptedSvg(dom),
     rejection |-> Rejection(S)]

\* The cleanup the effect returns: isMounted = false, then interrupt.  The
\* closure stays behind for as long as one of its callbacks is pending.
CleanupKeepFlag(rn, od, dom) ==
    IF ~rn.used THEN [old |-> od, svg |-> dom, rejection |-> "none"]
    ELSE LET stopped == Interrupt(od \cup {rn}, dom)
         IN  [old |-> stopped.runs, svg |-> stopped.svg,
              rejection |-> stopped.rejection]

CleanupNoInterrupt(rn, od, dom) ==
    IF ~rn.used THEN [old |-> od, svg |-> dom, rejection |-> "none"]
    ELSE [old |-> Used(od \cup {Normalize([rn EXCEPT !.isMounted = FALSE])}),
          svg |-> dom, rejection |-> "none"]

Cleanup(rn, od, dom) ==
    IF ~rn.used THEN [old |-> od, svg |-> dom, rejection |-> "none"]
    ELSE LET flagged == [rn EXCEPT !.isMounted = FALSE]
             stopped == Interrupt(od \cup {flagged}, dom)
         IN  [old |-> Used({Normalize(r) : r \in stopped.runs}), svg |-> stopped.svg,
              rejection |-> stopped.rejection]

\* ------------------------------------------------------------------------
\* The rendering effect (Main Rendering Logic), run after its dependencies
\* changed and the cleanup of the previous run was called
\* ------------------------------------------------------------------------
Closure(m, shapes, bs, ps, w, h) ==
    [used |-> TRUE, isMounted |-> TRUE, attached |-> TRUE, mode |-> m,
     shapes |-> shapes, beamSpeed |-> bs, persistence |-> ps, width |-> w,
     height |-> h, pc |-> "idle", idx |-> 0, rem |-> 0]

\* 1. CLEANUP: the elements of earlier runs leave the svg
DetachedSharedFlag(S) == {[r EXCEPT !.attached = FALSE, !.isMounted = TRUE] : r \in S}

Detached(S) == {[r EXCEPT !.attached = FALSE] : r \in S}

\* 5. DRAW VECTOR MODE, Beam Animation Logic: the beam marker and the group
\* of trails are made and the cycle is started, if there is a shape
BeamAnimationNoGuard(rec, dom) ==
    Continue(rec, 1, [dom EXCEPT !.beam = [NoBeam EXCEPT !.present = TRUE],
                                 !.trails = TRUE])

BeamAnimation(rec, dom) ==
    IF Len(rec.shapes) > 0
    THEN Continue(rec, 1, [dom EXCEPT !.beam = [NoBeam EXCEPT !.present = TRUE],
                                      !.trails = TRUE])
    ELSE [act |-> rec, svg |-> dom]

\* the effect below its guard: steps 1 to 6
Render(od, dom, m, cm, pts, text, bs, ps, w, h) ==
    LET stopped == Interrupt(od, dom)
        rest == Detached(stopped.runs)
        shapes == PrepareContent(cm, pts, text)
        rec == Closure(m, shapes, bs, ps, w, h)
        grid == [EmptySvg EXCEPT !.grid = TRUE]
        go == IF m = "VECTOR"
              THEN BeamAnimation(rec, [grid EXCEPT !.vertices =
                       IF cm = "DRAW" THEN CountVertices(shapes) ELSE 0])
              ELSE runScanline(rec, [grid EXCEPT
                       !.rasterGroup = [NoRaster EXCEPT !.present = TRUE,
                                           !.paths = CountRendered(shapes)],
                       !.scanline = [NoScanline EXCEPT !.present = TRUE]])
    IN  [run |-> go.act, old |-> rest, svg |-> go.svg]

EffectNoGuard(od, dom, m, cm, pts, text, bs, ps, w, h) ==
    Render(od, dom, m, cm, pts, text, bs, ps, w, h)

Effect(od, dom, m, cm, pts, text, bs, ps, w, h) ==
    IF w = 0 \/ h = 0
    THEN [run |-> NoRun, old |-> od, svg |-> dom]
    ELSE Render(od, dom, m, cm, pts, text, bs, ps, w, h)

\* A change of a dependency: React calls the cleanup of the previous run and
\* runs the effect with the new values.
Rerender(m, cm, pts, text, bs, ps, dim) ==
    /\ mounted
    /\ \E c \in {Cleanup(run, old, svg)} :
       \E e \in {Effect(c.old, c.svg, m, cm, pts, text, bs, ps, dim[1], dim[2])} :
          /\ run' = e.run
          /\ old' = e.old
          /\ svg' = e.svg
    /\ traced' = <<>>
    /\ last' = [kind |-> "input", stale |-> FALSE,
                rejection |-> Cleanup(run, old, svg).rejection]
    /\ UNCHANGED mounted

\* ------------------------------------------------------------------------
\* Inputs
\* ------------------------------------------------------------------------
NoProbe == [fn |-> "none"]

DisplayInit ==
    /\ mode = "VECTOR"
    /\ contentMode = "PRESET"
    /\ customPoints = <<>>
    /\ customText = "VECTOR"
    /\ beamSpeed = NaN
    /\ persistence = NaN
    /\ dimensions = <<0, 0>>
    /\ mounted = TRUE
    /\ run = NoRun
    /\ old = {}
    /\ svg = EmptySvg
    /\ traced = <<>>
    /\ last = [kind |-> "init", stale |-> FALSE, rejection |-> "none"]

Init ==
    /\ DisplayInit
    /\ probe = NoProbe

\* updateSize: the container's size is stored (a new object each time)
Resize(dim) ==
    /\ dimensions' = dim
    /\ Rerender(mode, contentMode, customPoints, customText, beamSpeed, persistence, dim)
    /\ UNCHANGED <<mode, contentMode, customPoints, customText, beamSpeed, persistence, probe>>

SetMode(m) ==
    /\ m # mode
    /\ mode' = m
    /\ Rerender(m, contentMode, customPoints, customText, beamSpeed, persistence, dimensions)
    /\ UNCHANGED <<contentMode, customPoints, customText, beamSpeed, persistence, dimensions, probe>>

SetContentModeClearing(cm) ==
    /\ cm # contentMode
    /\ contentMode' = cm
    /\ customPoints' = <<>>
    /\ Rerender(mode, cm, <<>>, customText, beamSpeed, persistence, dimensions)
    /\ UNCHANGED <<mode, customText, beamSpeed, persistence, dimensions, probe>>

SetContentMode(cm) ==
    /\ cm # contentMode
    /\ contentMode' = cm
    /\ Rerender(mode, cm, customPoints, customText, beamSpeed, persistence, dimensions)
    /\ UNCHANGED <<mode, customPoints, customText, beamSpeed, persistence, dimensions, probe>>

\* handleSvgClick, then handleCanvasClick
handleSvgClick(pos) ==
    <<Unscale(pos[1], dimensions[1]), Unscale(pos[2], dimensions[2])>>

\* a click on the svg at pos (the svg has the size of the container): outside
\* draw mode handleSvgClick returns at once
PointerNoGuard(pos) ==
    /\ pos[1] <= dimensions[1] /\ pos[2] <= dimensions[2]
    /\ Len(customPoints) < MaxPoints
    /\ customPoints' = Append(customPoints, handleSvgClick(pos))
    /\ Rerender(mode, contentMode, customPoints', customText, beamSpeed, persistence,
                dimensions)
    /\ UNCHANGED <<mode, contentMode, customText, beamSpeed, persistence, dimensions>>

Pointer(pos) ==
    /\ pos[1] <= dimensions[1] /\ pos[2] <= dimensions[2]
    /\ IF contentMode = "DRAW"
       THEN /\ Len(customPoints) < MaxPoints
            /\ customPoints' = Append(customPoints, handleSvgClick(pos))
            /\ Rerender(mode, contentMode, customPoints', customText, beamSpeed,
                        persistence, dimensions)
            /\ UNCHANGED <<mode, contentMode, customText, beamSpeed, persistence, dimensions>>
       ELSE UNCHANGED display

\* a click in draw mode
Click(pos) ==
    /\ contentMode = "DRAW"
    /\ Pointer(pos)
    /\ UNCHANGED probe

\* the CLEAR button, which App shows in draw mode
Clear ==
    /\ contentMode = "DRAW"
    /\ customPoints' = <<>>
    /\ Rerender(mode, contentMode, <<>>, customText, beamSpeed, persistence, dimensions)
    /\ UNCHANGED <<mode, contentMode, customText, beamSpeed, persistence, dimensions>>

clearDrawing ==
    /\ Clear
    /\ UNCHANGED probe

SetCustomText(text) ==
    /\ contentMode = "TEXT"
    /\ text # customText
    /\ customText' = text
    /\ Rerender(mode, contentMode, customPoints, text, beamSpeed, persistence, dimensions)
    /\ UNCHANGED <<mode, contentMode, customPoints, beamSpeed, persistence, dimensions, probe>>

\* a host that supplies the props of RetroScreenProps
SetBeamSpeed(bs) ==
    /\ bs # beamSpeed
    /\ beamSpeed' = bs
    /\ Rerender(mode, contentMode, customPoints, customText, bs, persistence, dimensions)
    /\ UNCHANGED <<mode, contentMode, customPoints, customText, persistence, dimensions, probe>>

SetPersistence(ps) ==
    /\ ps # persistence
    /\ persistence' = ps
    /\ Rerender(mode, contentMode, customPoints, customText, beamSpeed, ps, dimensions)
    /\ UNCHANGED <<mode, contentMode, customPoints, customText, beamSpeed, dimensions, probe>>

\* final teardown: the cleanup of the last run is called, nothing is run
Unmount ==
    LET c == Cleanup(run, old, svg) IN
    /\ mounted
    /\ mounted' = FALSE
    /\ run' = NoRun
    /\ old' = c.old
    /\ svg' = c.svg
    /\ traced' = <<>>
    /\ last' = [kind |-> "teardown", stale |-> FALSE, rejection |-> c.rejection]
    /\ UNCHANGED <<inputs, probe>>

\* ------------------------------------------------------------------------
\* The vector scheduler (animateVectorCycle)
\* ------------------------------------------------------------------------
RemoveAt(seq, k) == SubSeq(seq, 1, k - 1) \o SubSeq(seq, k + 1, Len(seq))

\* a callback of closure r ran: stale when r is not the current run
Step(kind, r) == [kind |-> kind, stale |-> r # run, rejection |-> "none"]

\* an event of an element of the svg: stale when no current run made it
ElementStep(kind) ==
    [kind |-> kind, stale |-> ~(run.used /\ run.attached), rejection |-> "none"]

\* closure r is left as new by its callback
Resume(r, new) ==
    /\ run' = IF r = run THEN new ELSE run
    /\ old' = IF r = run THEN old ELSE Used((old \ {r}) \cup {new})

\* a single point: the beam is lit and a dot is made that fades and is removed
Flash(rec, dom) ==
    [act |-> [rec EXCEPT !.pc = "flash", !.rem = TimeoutMs(flashWait)],
     svg |-> IF rec.attached
             THEN [dom EXCEPT !.strokes = Append(@,
                      [kind |-> "dot", idx |-> rec.idx, segs |-> 0, len |-> 0,
                       revealed |-> 0, phase |-> "fade", dur |-> rec.persistence,
                       rem |-> TransitionMs(rec.persistence)])]
             ELSE dom,
     began |-> <<>>]

\* the stroke of the shape, as the reveal transition starts (revealed: the
\* length of it that the dash offset shows)
StrokeOwnClock(rec, dev, len) ==
    [kind |-> "path", idx |-> rec.idx, segs |-> Len(dev) - 1, len |-> len,
     revealed |-> 0, phase |-> "reveal", dur |-> Add(rec.persistence, 1000),
     rem |-> TransitionMs(Add(rec.persistence, 1000))]

StrokeDecaysAtOnce(rec, dev, len) ==
    [kind |-> "path", idx |-> rec.idx, segs |-> Len(dev) - 1, len |-> len,
     revealed |-> 0, phase |-> "decay", dur |-> rec.persistence,
     rem |-> TransitionMs(rec.persistence)]

Stroke(rec, dev, len) ==
    [kind |-> "path", idx |-> rec.idx, segs |-> Len(dev) - 1, len |-> len,
     revealed |-> 0, phase |-> "reveal", dur |-> drawDuration(len, rec.beamSpeed),
     rem |-> TransitionMs(drawDuration(len, rec.beamSpeed))]

\* a path of non-zero length: the reveal and the beam transition start and
\* the loop awaits the end of the beam transition
TraceNoAwait(rec, dom, dev, len) ==
    LET drawn == IF rec.attached
                 THEN [dom EXCEPT !.beam.moving = TRUE, !.beam.len = len,
                                  !.beam.dur = drawDuration(len, rec.beamSpeed),
                                  !.strokes = Append(@, Stroke(rec, dev, len))]
                 ELSE dom
        go == Continue(rec, rec.idx + 1, drawn)
    IN  [act |-> go.act, svg |-> go.svg, began |-> <<rec.idx>>]

Trace(rec, dom, dev, len) ==
    [act |-> [rec EXCEPT !.pc = "trace",
                         !.rem = TransitionMs(drawDuration(len, rec.beamSpeed))],
     svg |-> IF rec.attached
             THEN [dom EXCEPT !.beam.moving = TRUE, !.beam.len = len,
                                  !.beam.dur = drawDuration(len, rec.beamSpeed),
                              !.strokes = Append(@, Stroke(rec, dev, len))]
             ELSE dom,
     began |-> <<rec.idx>>]

\* after the blanking wait of shape rec.idx, in a run that is still mounted,
\* dev being the points of the path and len its length: the flash of a
\* single point, or the stroke and the start of its trace, or (a path of
\* length 0) the next iteration
AfterBlanking(rec, dom, dev, len) ==
    LET lit == IF rec.attached THEN [dom EXCEPT !.beam.opacity = 1] ELSE dom
    IN  IF Len(dev) = 1
        THEN Flash(rec, lit)
        ELSE IF len > 0
             THEN Trace(rec, lit, dev, len)
             ELSE LET left == IF rec.attached
                              THEN [lit EXCEPT !.inert = Min(@ + 1, MaxInert)] ELSE lit
                      go == Continue(rec, rec.idx + 1, left)
                  IN  [act |-> go.act, svg |-> go.svg, began |-> <<>>]

\* the blanking setTimeout resolves
BlankTimeout(r) ==
    /\ r \in Pool /\ r.pc = "blank" /\ r.rem = 0
    /\ IF ~r.isMounted
       THEN /\ Resume(r, NoRun)
            /\ UNCHANGED <<svg, traced>>
       ELSE \E dev \in {DevicePoints(ClosedPoints(r.shapes[r.idx]), r.width, r.height)} :
            \E len \in {getTotalLength(dev)} :
            \E b \in {AfterBlanking(r, svg, dev, len)} :
               /\ Resume(r, b.act)
               /\ svg' = b.svg
               /\ traced' = IF r = run THEN traced \o b.began ELSE traced
    /\ last' = Step("blank", r)
    /\ UNCHANGED <<inputs, probe, mounted>>

\* the setTimeout after a flash resolves: continue
FlashTimeout(r) ==
    /\ r \in Pool /\ r.pc = "flash" /\ r.rem = 0
    /\ LET go == Continue(r, r.idx + 1, svg) IN
       /\ Resume(r, go.act)
       /\ svg' = go.svg
    /\ last' = Step("flash", r)
    /\ UNCHANGED <<inputs, probe, mounted, traced>>

\* the inter-cycle setTimeout resolves: animateVectorCycle is called again
CycleTimeout(r) ==
    /\ r \in Pool /\ r.pc = "cycle" /\ r.rem = 0
    /\ IF ~r.isMounted
       THEN /\ Resume(r, NoRun)
            /\ UNCHANGED <<svg, traced>>
       ELSE LET go == Continue(r, 1, svg) IN
            /\ Resume(r, go.act)
            /\ svg' = go.svg
            /\ traced' = IF r = run THEN <<>> ELSE traced
    /\ last' = Step("cycle", r)
    /\ UNCHANGED <<inputs, probe, mounted>>

\* The frame in which the reveal transition and the beam transition of one
\* shape end (same start, same duration): the end listener of the reveal
\* starts the decay of the stroke, then the promise of the beam transition
\* resolves and the loop continues.
Decaying(s, ps) ==
    IF s.phase = "reveal"
    THEN [s EXCEPT !.phase = "decay", !.revealed = s.len, !.dur = ps,
                   !.rem = TransitionMs(ps)]
    ELSE s

TraceEnd(r) ==
    /\ r \in Pool /\ r.pc = "trace" /\ r.rem = 0
    /\ LET revealed == IF r.attached
                       THEN [svg EXCEPT !.strokes =
                               [k \in DOMAIN svg.strokes |->
                                   Decaying(svg.strokes[k], r.persistence)]]
                       ELSE svg
           arrived == IF r.attached /\ r.isMounted
                      THEN LET pts == DevicePoints(ClosedPoints(r.shapes[r.idx]),
                                                   r.width, r.height)
                           IN  [revealed EXCEPT !.beam.moving = FALSE,
                                                !.beam.travelled = revealed.beam.len,
                                                !.beam.cx = pts[Len(pts)][1],
                                                !.beam.cy = pts[Len(pts)][2]]
                      ELSE [revealed EXCEPT !.beam.moving = FALSE]
           go == Continue(r, r.idx + 1, arrived)
       IN  /\ Resume(r, go.act)
           /\ svg' = go.svg
    /\ last' = Step("trace", r)
    /\ UNCHANGED <<inputs, probe, mounted, traced>>

\* the decay of a stroke ends: opacity 0, the path is removed
DecayEnd(k) ==
    /\ k \in DOMAIN svg.strokes
    /\ svg.strokes[k].kind = "path" /\ svg.strokes[k].phase = "decay"
    /\ svg.strokes[k].rem = 0
    /\ svg' = [svg EXCEPT !.strokes = RemoveAt(@, k)]
    /\ last' = ElementStep("decay")
    /\ UNCHANGED <<inputs, probe, mounted, run, old, traced>>

\* the fade of a flash dot ends: opacity 0, the dot is removed
DotFadeEnd(k) ==
    /\ k \in DOMAIN svg.strokes
    /\ svg.strokes[k].kind = "dot" /\ svg.strokes[k].phase = "fade"
    /\ svg.strokes[k].rem = 0
    /\ svg' = [svg EXCEPT !.strokes = RemoveAt(@, k)]
    /\ last' = ElementStep("dot")
    /\ UNCHANGED <<inputs, probe, mounted, run, old, traced>>

\* ------------------------------------------------------------------------
\* The raster scheduler (runScanline)
\* ------------------------------------------------------------------------
\* the sweep ends at the bottom; its end listener is runScanline
SweepEnd(r) ==
    /\ r \in Pool /\ r.pc = "sweep" /\ r.rem = 0
    /\ LET bottom == IF r.attached
                     THEN [svg EXCEPT !.scanline.y = dimensions[2],
                                      !.scanline.sweeping = FALSE]
                     ELSE svg
           go == runScanline(r, bottom)
       IN  /\ Resume(r, go.act)
           /\ svg' = go.svg
    /\ last' = Step("sweep", r)
    /\ UNCHANGED <<inputs, probe, mounted, traced>>

\* the ghosting decay reaches its floor
GhostEnd ==
    /\ svg.rasterGroup.present /\ svg.rasterGroup.fading
    /\ svg.rasterGroup.rem = 0
    /\ svg' = [svg EXCEPT !.rasterGroup.opacity = ghostFloor, !.rasterGroup.fading = FALSE]
    /\ last' = ElementStep("ghost")
    /\ UNCHANGED <<inputs, probe, mounted, run, old, traced>>

\* ------------------------------------------------------------------------
\* Time
\* ------------------------------------------------------------------------
Transiting(s) == s.phase \in {"reveal", "decay", "fade"}

Timed(r) == r.isMounted /\ r.pc \in PendingPcs

PendingRems ==
    {r.rem : r \in {q \in Pool : Timed(q)}}
    \cup {svg.strokes[k].rem : k \in {j \in DOMAIN svg.strokes : Transiting(svg.strokes[j])}}
    \cup (IF svg.rasterGroup.fading THEN {svg.rasterGroup.rem} ELSE {})

\* the run whose loop awaits the beam transition that is in the svg
Tracing(rec) == rec.isMounted /\ rec.attached /\ rec.pc = "trace"

\* the run whose sweep moves the scanline that is in the svg
Sweeping(rec) == rec.isMounted /\ rec.attached /\ rec.pc = "sweep"

\* d ms pass, none of the pending events being due sooner: every pending
\* timer and transition is d ms nearer its end, and the attributes in
\* transition (the scanline's position, the opacity of the raster content)
\* have the values of their tweens.  The last tick of a transition is the
\* step in which it ends (SweepEnd, GhostEnd).
Advance(d) ==
    LET Later(r) == IF Timed(r) THEN [r EXCEPT !.rem = @ - d] ELSE r
        sweep == scanDuration(run.beamSpeed)
    IN
    /\ run' = Later(run)
    /\ old' = {Later(r) : r \in old}
    /\ svg' = [svg EXCEPT
                  !.strokes = [k \in DOMAIN svg.strokes |->
                                 IF Transiting(svg.strokes[k])
                                 THEN [svg.strokes[k] EXCEPT
                                         !.rem = @ - d,
                                         !.revealed =
                                             IF svg.strokes[k].phase = "reveal"
                                                /\ svg.strokes[k].rem > d
                                             THEN Tween(0, svg.strokes[k].len,
                                                        TransitionMs(svg.strokes[k].dur)
                                                            - (svg.strokes[k].rem - d),
                                                        svg.strokes[k].dur)
                                             ELSE @]
                                 ELSE svg.strokes[k]],
                  !.beam.travelled =
                      IF svg.beam.moving /\ Tracing(run) /\ run.rem > d
                      THEN Tween(0, svg.beam.len,
                                 TransitionMs(svg.beam.dur) - (run.rem - d), svg.beam.dur)
                      ELSE @,
                  !.rasterGroup.rem = IF svg.rasterGroup.fading THEN @ - d ELSE @,
                  !.rasterGroup.opacity =
                      IF svg.rasterGroup.fading /\ svg.rasterGroup.rem > d
                      THEN Tween(100, ghostFloor,
                                 TransitionMs(svg.rasterGroup.dur) - (svg.rasterGroup.rem - d),
                                 svg.rasterGroup.dur)
                      ELSE @,
                  !.scanline.y =
                      IF svg.scanline.sweeping /\ Sweeping(run) /\ run.rem > d
                      THEN Tween(0, run.height, TransitionMs(sweep) - (run.rem - d), sweep)
                      ELSE @]
    /\ last' = [kind |-> "elapse", stale |-> FALSE, rejection |-> "none"]
    /\ UNCHANGED <<inputs, probe, mounted, traced>>

NextDue == CHOOSE r \in PendingRems : \A q \in PendingRems : r <= q

\* time passes up to the next pending event
Elapse ==
    /\ PendingRems # {}
    /\ \A r \in PendingRems : r > 0
    /\ \E d \in {NextDue} : Advance(d)

\* time passes up to the next animation frame, or up to the next pending
\* event if that is due sooner
Frame ==
    /\ PendingRems # {}
    /\ \A r \in PendingRems : r > 0
    /\ \E d \in {Min(FrameMs, NextDue)} : Advance(d)

\* ------------------------------------------------------------------------
\* Specification
\* ------------------------------------------------------------------------
InputChange ==
    \/ \E dim \in Viewports : Resize(dim)
    \/ \E m \in DisplayModes : SetMode(m)
    \/ \E cm \in ContentModes : SetContentMode(cm)
    \/ \E pos \in ClickPositions : Click(pos)
    \/ clearDrawing
    \/ \E text \in Texts : SetCustomText(text)
    \/ \E bs \in SpeedValues : SetBeamSpeed(bs)
    \/ \E ps \in PersistenceValues : SetPersistence(ps)

\* a timer or a transition of the vector scheduler resolves
VectorCallback ==
    \/ \E r \in Pool : BlankTimeout(r)
    \/ \E r \in Pool : FlashTimeout(r)
    \/ \E r \in Pool : CycleTimeout(r)
    \/ \E r \in Pool : TraceEnd(r)
    \/ \E k \in 1..Len(svg.strokes) : DecayEnd(k)
    \/ \E k \in 1..Len(svg.strokes) : DotFadeEnd(k)

\* a transition of the raster scheduler ends
RasterCallback ==
    \/ \E r \in Pool : SweepEnd(r)
    \/ GhostEnd

Callback ==
    \/ VectorCallback
    \/ RasterCallback

Next ==
    \/ InputChange
    \/ Unmount
    \/ Callback
    \/ Elapse

Spec == Init /\ [][Next]_vars

\* The component as App hosts it: beamSpeed and persistence are never
\* supplied, and the container can lose its area; one click, two texts.
LifeInputChange ==
    \/ \E dim \in ZeroViewports \cup Viewports : Resize(dim)
    \/ \E m \in DisplayModes : SetMode(m)
    \/ \E cm \in ContentModes : SetContentMode(cm)
    \/ (customPoints = <<>> /\ Click(<<20, 70>>))
    \/ clearDrawing
    \/ \E text \in {"VECTOR"} \cup FailingTexts : SetCustomText(text)

LifeNext ==
    \/ LifeInputChange
    \/ Unmount
    \/ Callback
    \/ Elapse

LifeSpec == Init /\ [][LifeNext]_vars

\* The component as App hosts it in vector mode, in a container that can be
\* as narrow as twice the margin, with the scenes of preset and draw mode.
\* A timer or a transition that is due resolves (the event loop runs it),
\* and time passes while none is due.
FairInputChange ==
    \/ \E dim \in Viewports \cup NarrowViewports : Resize(dim)
    \/ \E cm \in {"PRESET", "DRAW"} : SetContentMode(cm)
    \/ \E pos \in ClickPositions : Click(pos)
    \/ clearDrawing

FairNext ==
    \/ FairInputChange
    \/ VectorCallback
    \/ Elapse

FairSpec == Init /\ [][FairNext]_vars /\ WF_vars(VectorCallback) /\ WF_vars(Elapse)

\* The preset scene on a host that supplies the props, observed at every
\* animation frame: the attributes in transition are seen at each tick of
\* their transitions, and the container can lose its height.
FrameInputChange ==
    \/ \E dim \in Viewports \cup {<<140, 0>>} : Resize(dim)
    \/ \E m \in DisplayModes : SetMode(m)
    \/ \E bs \in SpeedValues : SetBeamSpeed(bs)
    \/ \E ps \in PersistenceValues : SetPersistence(ps)

\* the callbacks of the schedulers that a scene of paths has
FrameCallback ==
    \/ \E r \in Pool : BlankTimeout(r)
    \/ \E r \in Pool : CycleTimeout(r)
    \/ \E r \in Pool : TraceEnd(r)
    \/ \E k \in 1..Len(svg.strokes) : DecayEnd(k)
    \/ RasterCallback

FrameNext ==
    \/ FrameInputChange
    \/ FrameCallback
    \/ Frame

FrameSpec == Init /\ [][FrameNext]_vars

\* Drawing: App hosts the component in containers of several widths, the
\* content mode is switched, and the svg is clicked inside and outside the
\* area within the margins, in every content mode.  What the pointer did is
\* recorded: the clicks made in draw mode since the points were cleared last
\* (position and size of the container), the last event, and a bit that
\* every event flips.
DrawViewports == {<<140, 140>>, <<40, 140>>, <<30, 140>>}
PointerPositions == {<<5, 5>>, <<25, 70>>, <<139, 140>>}

NoClicks == [fn |-> "pointer", clicks |-> <<>>, event |-> "none", flip |-> 0]

DrawInit ==
    /\ DisplayInit
    /\ probe = NoClicks

PointerClick(pos) ==
    /\ Pointer(pos)
    /\ probe' = [fn |-> "pointer",
                 clicks |-> IF contentMode = "DRAW"
                            THEN Append(probe.clicks, [pos |-> pos, dim |-> dimensions])
                            ELSE probe.clicks,
                 event |-> IF contentMode = "DRAW" THEN "click" ELSE "ignored",
                 flip |-> 1 - probe.flip]

ClearPressed ==
    /\ Clear
    /\ probe' = [fn |-> "pointer", clicks |-> <<>>, event |-> "clear",
                 flip |-> 1 - probe.flip]

DrawNext ==
    \/ \E dim \in DrawViewports : Resize(dim)
    \/ \E cm \in ContentModes : SetContentMode(cm)
    \/ \E pos \in PointerPositions : PointerClick(pos)
    \/ ClearPressed

DrawSpec == DrawInit /\ [][DrawNext]_vars

\* ------------------------------------------------------------------------
\* Lifecycle properties
\* ------------------------------------------------------------------------
Live == {r \in Pool : r.isMounted}
Stale == {r \in Pool : ~r.isMounted}

\* C1: a timer or transition callback that a run scheduled before an input
\* change and that resolves after the change leaves the display as it is:
\* every step of a run that is no longer the current one keeps svg unchanged.
StaleCallbacksInert == [][last'.stale => svg' = svg]_vars

\* a blanking timeout of a superseded run has resolved while the elements
\* that run made are still in the display
StaleCallbackResolved ==
    /\ last.stale /\ last.kind = "blank"
    /\ mounted /\ svg.beam.present

\* C2: at most one run of the effect is live (its isMounted flag is true):
\* no closure of an earlier run has its flag set
AtMostOneLive == Cardinality(Live) <= 1 /\ \A r \in old : ~r.isMounted

\* a live run next to a superseded one whose timer is still pending
LiveBesideStale == Live # {} /\ Stale # {}

\* the transient elements a scheduler makes
HasTransients(dom) ==
    \/ dom.beam.present
    \/ dom.strokes # <<>>
    \/ dom.inert > 0
    \/ dom.rasterGroup.present
    \/ dom.scanline.present

\* a transition of an element of the svg is running
InTransition(dom) ==
    \/ \E k \in DOMAIN dom.strokes : Transiting(dom.strokes[k])
    \/ dom.beam.moving
    \/ dom.rasterGroup.fading
    \/ dom.scanline.sweeping

ZeroArea(dim) == dim[1] = 0 \/ dim[2] = 0

\* C3: once a change of an input has been processed, whatever the new
\* values are, no transient element (beam marker, stroke, flash dot, raster
\* group, scanline) made by the previously running scheduler is in the
\* display: what is there was made by the run the change started.
PreviousElementsRemoved ==
    (mounted /\ last.kind = "input" /\ HasTransients(svg)) => (run.used /\ run.attached)

\* C4: after the final teardown no timer and no transition of any scheduler
\* is pending.
NothingPendingAfterTeardown ==
    ~mounted => (Pool = {} /\ ~InTransition(svg))

\* the scheduler of closure rec has been started for mode m and scene shapes
Started(rec, m, shapes) ==
    /\ rec.used /\ rec.isMounted /\ rec.attached
    /\ rec.mode = m /\ rec.shapes = shapes
    /\ IF m = "RASTER" THEN rec.pc = "sweep"
       ELSE IF shapes = <<>> THEN rec.pc = "idle"
       ELSE rec.pc \in {"blank", "trace", "flash", "cycle"}

\* C5: while the width or the height of the viewport is zero there is no
\* scheduler and nothing moves (no run, no transition, and a step taken at
\* zero area leaves the display as it is); in every state with both
\* dimensions above zero, from the step that reports them on, a scheduler
\* for the current mode and scene is running.
ZeroAreaSuppresses ==
    [][/\ (mounted' /\ ZeroArea(dimensions')) =>
             /\ ~run'.used
             /\ ~InTransition(svg')
             /\ (ZeroArea(dimensions) => svg' = svg)
       /\ (mounted' /\ ~ZeroArea(dimensions')) =>
             Started(run', mode', PrepareContent(contentMode', customPoints', customText'))
      ]_vars

\* the area was lost while elements of a run were in the display, and a
\* callback of that run has resolved since
IdleAtZeroArea ==
    /\ mounted /\ ZeroArea(dimensions)
    /\ svg.beam.present
    /\ last.kind = "blank" /\ last.stale

\* ------------------------------------------------------------------------
\* Properties of the vector cycle
\* ------------------------------------------------------------------------
\* shape i of closure rec has a path of non-zero length
Traceable(rec, i) ==
    /\ Len(ClosedPoints(rec.shapes[i])) >= 2
    /\ getTotalLength(DevicePoints(ClosedPoints(rec.shapes[i]), rec.width, rec.height)) > 0

\* the shapes whose trace has begun in the cycle closure rec is in
Begun(rec) ==
    LET Reached(i) ==
            /\ Traceable(rec, i)
            /\ \/ rec.pc = "cycle"
               \/ i < rec.idx
               \/ (i = rec.idx /\ rec.pc = "trace")
    IN  SelectSeq([i \in 1..Len(rec.shapes) |-> i], Reached)

Revealing == {k \in DOMAIN svg.strokes : svg.strokes[k].phase = "reveal"}

\* C6: within one cycle the shapes are traced in scene order, none twice and
\* none out of order, and the beam never traces two shapes at once: the
\* traces begun in the cycle are the traceable shapes up to the position of
\* the loop, in scene order, and at most one stroke is being revealed, which
\* is the stroke of the shape the loop is at.
TracedInSceneOrder ==
    /\ Cardinality(Revealing) <= 1
    /\ (run.isMounted /\ run.mode = "VECTOR" /\ run.pc \in PendingPcs) =>
          /\ traced = Begun(run)
          /\ (run.pc = "trace") = (Revealing # {})
          /\ \A k \in Revealing : svg.strokes[k].idx = run.idx

\* the third shape of a text is being traced after the first was, the second
\* (without points) having been passed over
ThirdShapeTraced ==
    /\ traced = <<1, 3>>
    /\ run.pc = "trace" /\ run.idx = 3

GridOnly == [EmptySvg EXCEPT !.grid = TRUE]

EmptyScene == mounted /\ run.used /\ run.shapes = <<>>

SinglePointFlash ==
    /\ \A k \in DOMAIN svg.strokes :
          svg.strokes[k].kind = "dot" =>
              /\ svg.strokes[k].dur # NaN /\ svg.strokes[k].dur >= 0
              /\ svg.strokes[k].len = 0
              /\ svg.strokes[k].phase \in {"fade", "frozen"}
    /\ (run.isMounted /\ run.pc = "trace") =>
          Len(ClosedPoints(run.shapes[run.idx])) >= 2

ShipScene == run.isMounted /\ run.mode = "VECTOR" /\ run.shapes = <<SHIP_SHAPE>>

\* C10 as stated: the stroke of the closed 4-point polygon has 5 segments
ShipHasFiveSegments ==
    ShipScene =>
        \A k \in DOMAIN svg.strokes :
            svg.strokes[k].kind = "path" /\ svg.strokes[k].phase # "frozen"
                => svg.strokes[k].segs = 5

\* C10, amended: with the closed 4-point polygon as the scene, the stroke of
\* a cycle has 4 segments (3 edges and the closing edge), and the loop goes
\* from Blanking to Tracing of that stroke, from Tracing to the inter-cycle
\* wait as the stroke starts Decaying, and from the wait to Blanking of
\* shape 0 again.
ShipCycle ==
    [][(/\ ShipScene
        /\ last'.kind \notin {"input", "teardown"}
        /\ run'.pc # run.pc) =>
          \/ /\ run.pc = "blank" /\ run'.pc = "trace" /\ run'.idx = 1
             /\ svg'.strokes = Append(svg.strokes, svg'.strokes[Len(svg'.strokes)])
             /\ svg'.strokes[Len(svg'.strokes)].phase = "reveal"
             /\ svg'.strokes[Len(svg'.strokes)].segs = 4
          \/ /\ run.pc = "trace" /\ run'.pc = "cycle"
             /\ \E k \in DOMAIN svg.strokes :
                   /\ svg.strokes[k].phase = "reveal"
                   /\ svg'.strokes[k].phase = "decay"
                   /\ svg'.strokes[k].segs = 4
          \/ /\ run.pc = "cycle" /\ run'.pc = "blank" /\ run'.idx = 1
      ]_vars

\* the second cycle is in its Blanking while the stroke of the first decays
ShipSecondCycle ==
    /\ ShipScene /\ run.pc = "blank"
    /\ \E k \in DOMAIN svg.strokes :
          svg.strokes[k].phase = "decay" /\ svg.strokes[k].segs = 4

\* ------------------------------------------------------------------------
\* Progress of the vector cycle
\* ------------------------------------------------------------------------
SceneIndices == 1..3

VectorRunning == run.isMounted /\ run.mode = "VECTOR" /\ run.shapes # <<>>

\* shape i of the running vector scene has two points that differ
TwoDistinctPoints(i) ==
    /\ VectorRunning /\ i \in DOMAIN run.shapes
    /\ \E j, k \in DOMAIN run.shapes[i].points :
          run.shapes[i].points[j] # run.shapes[i].points[k]

\* shape i of the running vector scene has a path of non-zero length
NonZeroPath(i) ==
    /\ VectorRunning /\ i \in DOMAIN run.shapes
    /\ Traceable(run, i)

BeingTraced(i) == run.isMounted /\ run.pc = "trace" /\ run.idx = i

\* C7 as stated: in vector mode with a non-empty scene the scheduler is
\* never in a terminal state, and unless inputs keep changing every shape
\* with at least two distinct points is traced again and again
DistinctPointsTracedForever ==
    /\ [](VectorRunning => run.pc \in PendingPcs)
    /\ \A i \in SceneIndices :
          []<>(last.kind = "input" \/ ~TwoDistinctPoints(i) \/ BeingTraced(i))

\* C7, amended: in vector mode with a non-empty scene the scheduler is never
\* in a terminal state, and unless inputs keep changing every shape whose
\* rendered path has a non-zero length in the current viewport is traced
\* again and again.
NonZeroPathsTracedForever ==
    /\ [](VectorRunning => run.pc \in PendingPcs)
    /\ \A i \in SceneIndices :
          []<>(last.kind = "input" \/ ~NonZeroPath(i) \/ BeingTraced(i))

\* the drawn line is traced again while its stroke of the cycle before decays
DrawnLineTracedAgain ==
    /\ BeingTraced(1) /\ contentMode = "DRAW" /\ Len(customPoints) = 2
    /\ \E k \in DOMAIN svg.strokes : svg.strokes[k].phase = "decay"

\* ------------------------------------------------------------------------
\* Timing of a trace
\* ------------------------------------------------------------------------
\* The trace duration is evaluated for two paths a and b, each a length and
\* a beamSpeed; the display is not involved.
TimingArgs == [len : 1..MaxLen, beamSpeed : SpeedRange]

TimingInit ==
    /\ DisplayInit
    /\ probe \in [fn : {"args"}, a : TimingArgs, b : TimingArgs]

Measure ==
    /\ probe.fn = "args"
    /\ probe' = [fn |-> "drawDuration", a |-> probe.a, b |-> probe.b,
                 da |-> drawDurationRatio(probe.a.len, probe.a.beamSpeed),
                 db |-> drawDurationRatio(probe.b.len, probe.b.beamSpeed)]
    /\ UNCHANGED display

TimingNext == Measure

TimingSpec == TimingInit /\ [][TimingNext]_vars

Measured == probe.fn = "drawDuration"

\* C11: of two traces of the same length L > 0 the one with the larger
\* beamSpeed (an integer of 1..10) has the strictly shorter duration, and
\* of two traces with the same beamSpeed the longer path has the strictly
\* longer duration.
DurationMonotonic ==
    Measured =>
        /\ (probe.a.len = probe.b.len /\ probe.a.beamSpeed < probe.b.beamSpeed)
               => Less(probe.db, probe.da)
        /\ (probe.a.beamSpeed = probe.b.beamSpeed /\ probe.a.len < probe.b.len)
               => Less(probe.da, probe.db)

\* the same one-pixel path at speeds 5 and 6 (37.5 ms and 31.25 ms)
NeighbouringSpeedsMeasured ==
    /\ Measured
    /\ probe.a = [len |-> 1, beamSpeed |-> 5]
    /\ probe.b = [len |-> 1, beamSpeed |-> 6]
    /\ Less(probe.db, probe.da)

\* ------------------------------------------------------------------------
\* The raster scheduler
\* ------------------------------------------------------------------------
\* C12: in raster mode the position of the scanline is at every instant
\* between 0 and the height of the viewport; while a sweep is under way it
\* is strictly larger at every tick (the last tick of a sweep, which puts it
\* at the bottom, is in the step that starts the next sweep); and it never
\* gets smaller except by the jump back to 0.
ScanlineSweepsDownward ==
    [][(mode' = "RASTER" /\ svg'.scanline.present) =>
          /\ 0 <= svg'.scanline.y /\ svg'.scanline.y <= dimensions'[2]
          /\ (svg.scanline.sweeping /\ last'.kind = "elapse" /\ run'.rem > 0)
                => svg'.scanline.y > svg.scanline.y
          /\ (svg.scanline.present /\ svg'.scanline.y < svg.scanline.y)
                => svg'.scanline.y = 0]_vars

\* the sweep, or the decay, is as runScanline has just left it
SweepAtStart == run.rem = TransitionMs(scanDuration(run.beamSpeed))

DecayAtStart ==
    /\ svg.rasterGroup.fading
    /\ svg.rasterGroup.opacity = 100
    /\ svg.rasterGroup.rem = TransitionMs(svg.rasterGroup.dur)

\* the time since the sweep, or the decay, was started
SweepElapsed == TransitionMs(scanDuration(run.beamSpeed)) - run.rem
DecayElapsed == TransitionMs(svg.rasterGroup.dur) - svg.rasterGroup.rem

\* C13: the sweep and the ghosting decay of a raster cycle are started in
\* the same tick: in no state has one of them just been started and the
\* other not, and a decay under way has been running exactly as long as the
\* sweep under way.
SweepAndDecayStartTogether ==
    (run.used /\ Sweeping(run)) =>
        /\ SweepAtStart <=> DecayAtStart
        /\ svg.rasterGroup.fading => SweepElapsed = DecayElapsed

\* a sweep reached the bottom and the next cycle has just been started
NextRasterCycleStarted ==
    /\ run.used /\ Sweeping(run)
    /\ run.beamSpeed # NaN
    /\ last.kind = "sweep"
    /\ SweepAtStart /\ DecayAtStart

\* C14: the opacity of the raster content is at every instant at or above
\* a floor that is not zero, and it is fully opaque again when a sweep has
\* just been started.
RasterOpacityAboveFloor ==
    svg.rasterGroup.present =>
        /\ ghostFloor > 0
        /\ svg.rasterGroup.opacity >= ghostFloor
        /\ svg.rasterGroup.opacity <= 100
        /\ (run.used /\ Sweeping(run) /\ SweepAtStart) => svg.rasterGroup.opacity = 100

\* the decay has ended at the floor while the sweep goes on
GhostingFloorReached ==
    /\ run.used /\ Sweeping(run)
    /\ ~svg.rasterGroup.fading
    /\ svg.rasterGroup.opacity = ghostFloor
    /\ svg.scanline.y > 0

\* ------------------------------------------------------------------------
\* Failure of the glyph generator
\* ------------------------------------------------------------------------
\* text mode, the generator throws for the text, and there is an area to
\* render into
GeneratorFailed ==
    /\ mounted /\ ~ZeroArea(dimensions)
    /\ contentMode = "TEXT"
    /\ GeneratorFails(IF customText = "" THEN "READY" ELSE customText)

Scene == PrepareContent(contentMode, customPoints, customText)

LogicalValues == {0, 1, 33, 50, 100}
MapperViewports == {<<140, 140>>, <<40, 140>>, <<101, 60>>}
Margins == {0, 20, 30}

MapperInit ==
    /\ DisplayInit
    /\ probe \in [fn : {"point"}, p : LogicalValues \X LogicalValues,
                   vp : MapperViewports, m : Margins]

RoundTrip ==
    /\ probe.fn = "point"
    /\ \E dev \in {<<ScaleRatio(probe.p[1], probe.vp[1], probe.m),
                      ScaleRatio(probe.p[2], probe.vp[2], probe.m)>>} :
          probe' = [fn |-> "roundTrip", p |-> probe.p, vp |-> probe.vp, m |-> probe.m,
                    dev |-> dev,
                    back |-> <<UnscaleRatio(dev[1], probe.vp[1], probe.m),
                               UnscaleRatio(dev[2], probe.vp[2], probe.m)>>]
    /\ UNCHANGED display

MapperNext == RoundTrip

MapperSpec == MapperInit /\ [][MapperNext]_vars

MappedBack ==
    /\ Same(probe.back[1], <<probe.p[1], 1>>)
    /\ Same(probe.back[2], <<probe.p[2], 1>>)

\* C16 as stated: for every logical point p, every viewport and every
\* margin m of at most half of either dimension, the half included, p
\* mapped to the device and back is p.
RoundTripUpToHalf ==
    (probe.fn = "roundTrip" /\ 2 * probe.m <= probe.vp[1] /\ 2 * probe.m <= probe.vp[2])
        => MappedBack

\* C16, amended: the same for every margin below half of either dimension.
RoundTripBelowHalf ==
    (probe.fn = "roundTrip" /\ 2 * probe.m < probe.vp[1] /\ 2 * probe.m < probe.vp[2])
        => MappedBack

\* a point that is rendered between two pixels comes back as it was
OffPixelPointMappedBack ==
    /\ probe.fn = "roundTrip"
    /\ probe.p = <<33, 1>> /\ probe.vp = <<101, 60>> /\ probe.m = 20
    /\ probe.dev[1] = <<4013, 100>>
    /\ MappedBack

\* ------------------------------------------------------------------------
\* Drawing
\* ------------------------------------------------------------------------
InUnitSquare(pt) == 0 <= pt[1] /\ pt[1] <= 100 /\ 0 <= pt[2] /\ pt[2] <= 100

\* C17: every point of the draw points has both coordinates within
\* [0, 100], wherever the click was, inside or outside the area within the
\* margins.
DrawPointsInUnitSquare ==
    \A i \in DOMAIN customPoints : InUnitSquare(customPoints[i])

\* a click left of and above the area within the margins, then one right of
\* and below it
ClickedOutsideTheMargins ==
    /\ probe.fn = "pointer"
    /\ probe.clicks = << [pos |-> <<5, 5>>, dim |-> <<140, 140>>],
                         [pos |-> <<139, 140>>, dim |-> <<140, 140>>] >>
    /\ customPoints = << <<0, 0>>, <<100, 100>> >>

\* the logical point of a recorded click
PointOf(click) ==
    <<Unscale(click.pos[1], click.dim[1]), Unscale(click.pos[2], click.dim[2])>>

DrawScene(pts) ==
    IF pts = <<>> THEN <<>>
    ELSE << [id |-> "custom-draw", points |-> pts, closed |-> FALSE] >>

\* C18: the draw points are the points of the clicks made while the content
\* mode was draw, in their order, since they were cleared last: a click in
\* draw mode appends exactly one point, a click in another content mode
\* changes nothing, clear empties the sequence; and the scene of draw mode
\* is one open shape over the sequence, and empty while the sequence is.
DrawPointsAreTheClicks ==
    [][/\ Len(customPoints') = Len(probe'.clicks)
       /\ \A i \in DOMAIN customPoints' : customPoints'[i] = PointOf(probe'.clicks[i])
       /\ (probe' # probe /\ probe'.event = "click") =>
              /\ Len(customPoints') = Len(customPoints) + 1
              /\ SubSeq(customPoints', 1, Len(customPoints)) = customPoints
       /\ (probe' # probe /\ probe'.event = "ignored") => display' = display
       /\ (probe' # probe /\ probe'.event = "clear") => customPoints' = <<>>
       /\ (contentMode' = "DRAW" /\ run'.used) => run'.shapes = DrawScene(customPoints')
      ]_vars

\* a point was drawn, the content mode was changed, and the svg was clicked
IgnoredClickAfterClick ==
    /\ probe.fn = "pointer" /\ probe.event = "ignored"
    /\ contentMode = "PRESET"
    /\ Len(probe.clicks) = 1
    /\ customPoints = << <<0, 0>> >>

\* ------------------------------------------------------------------------
\* The scene of a run
\* ------------------------------------------------------------------------
\* C19: no scheduler modifies the points of a shape of its scene: the scene
\* of the live run is the scene its inputs give, a step that is not an input
\* leaves it and the draw points as they are, and the points of a closed
\* shape do not end with a copy of its first point.
SceneNeverModified ==
    [][(run'.used /\ run'.isMounted) =>
          /\ run'.shapes = Scene'
          /\ (run.used /\ run.isMounted /\ last'.kind # "input") =>
                 (run'.shapes = run.shapes /\ customPoints' = customPoints)
          /\ \A i \in DOMAIN run'.shapes :
                 (run'.shapes[i].closed /\ Len(run'.shapes[i].points) > 1) =>
                    run'.shapes[i].points[Len(run'.shapes[i].points)]
                        # run'.shapes[i].points[1]
      ]_vars

\* the closed ship has been traced through a whole cycle by a run that
\* replaced an earlier one, a callback of which is still pending
SceneAfterRestartAndCycle ==
    /\ run.used /\ run.isMounted
    /\ run.shapes = <<SHIP_SHAPE>>
    /\ last.kind = "cycle" /\ ~last.stale
    /\ old # {}

\* ------------------------------------------------------------------------
\* Beam marker and scanline
\* ------------------------------------------------------------------------
\* C20: the display never contains the beam marker and the scanline
\* together; there is a beam marker only while the display mode is vector
\* and a scanline only while it is raster, the state right after a switch
\* of the mode included.
BeamAndScanlineExclusive ==
    /\ ~(svg.beam.present /\ svg.scanline.present)
    /\ svg.beam.present => mode = "VECTOR"
    /\ svg.scanline.present => mode = "RASTER"

\* ------------------------------------------------------------------------
\* Delays of the vector scheduler
\* ------------------------------------------------------------------------
\* The scheduler is started on a scene of one point for two settings a and
\* b of the props, and the blanking wait it schedules and the fade it gives
\* the flash dot are read off; the display is not involved.
PersistenceRange == {50, 500}
DelayArgs == [beamSpeed : SpeedRange, persistence : PersistenceRange]

DelayInit ==
    /\ DisplayInit
    /\ probe \in [fn : {"props"}, a : DelayArgs, b : DelayArgs]

PointScene == << [id |-> "custom-draw", points |-> << <<50, 50>> >>, closed |-> FALSE] >>

ProbeRun(args) ==
    Closure("VECTOR", PointScene, args.beamSpeed, args.persistence, 140, 140)

\* the delay of the setTimeout the loop awaits before the first shape
BlankingOf(args) == Continue(ProbeRun(args), 1, GridOnly).act.rem

\* the duration of the transition of the dot that is flashed after it
FlashFadeOf(args) ==
    Flash(Continue(ProbeRun(args), 1, GridOnly).act, GridOnly).svg.strokes[1].dur

Schedule ==
    /\ probe.fn = "props"
    /\ probe' = [fn |-> "delays", a |-> probe.a, b |-> probe.b,
                 blankA |-> BlankingOf(probe.a), blankB |-> BlankingOf(probe.b),
                 fadeA |-> FlashFadeOf(probe.a), fadeB |-> FlashFadeOf(probe.b)]
    /\ UNCHANGED display

DelayNext == Schedule

DelaySpec == DelayInit /\ [][DelayNext]_vars

\* C21: the blanking delay before a shape is the same for every beamSpeed
\* of 1..10.
BlankingDelayConstant ==
    probe.fn = "delays" => probe.blankA = probe.blankB

\* C22: the fade of the flash of a single point lasts the same for every
\* persistence and every beamSpeed.
FlashFadeConstant ==
    probe.fn = "delays" => probe.fadeA = probe.fadeB

\* ------------------------------------------------------------------------
\* Reveal of a stroke and travel of the beam
\* ------------------------------------------------------------------------
RevealingStrokes == {k \in DOMAIN svg.strokes : svg.strokes[k].phase = "reveal"}

\* C23: at every tick of the trace of a shape the length of the stroke that
\* is revealed equals the length of path the beam marker has travelled; the
\* reveal and the travel are under way together (started in the same tick)
\* and have the same time left (they finish in the same tick).
RevealFollowsBeam ==
    /\ (run.used /\ Tracing(run)) =>
          /\ svg.beam.moving
          /\ \E k \in RevealingStrokes :
                /\ svg.strokes[k].idx = run.idx
                /\ svg.strokes[k].len = svg.beam.len
                /\ svg.strokes[k].revealed = svg.beam.travelled
                /\ svg.strokes[k].rem = run.rem
    /\ (RevealingStrokes # {} \/ svg.beam.moving) =>
          /\ run.used /\ Tracing(run)
          /\ Cardinality(RevealingStrokes) = 1

\* a tick in the middle of the trace of the ship
ShipHalfRevealed ==
    /\ run.used /\ Tracing(run)
    /\ run.shapes = <<SHIP_SHAPE>>
    /\ svg.beam.travelled > 0
    /\ 2 * svg.beam.travelled >= svg.beam.len
    /\ svg.beam.travelled < svg.beam.len
    /\ \E k \in RevealingStrokes : svg.strokes[k].revealed = svg.beam.travelled

\* ------------------------------------------------------------------------
\* Decay of a stroke
\* ------------------------------------------------------------------------
DecayingStrokes(dom) == {k \in DOMAIN dom.strokes : dom.strokes[k].phase = "decay"}

\* Strokes are made at least one frame apart and a stroke decays for its
\* persistence: so many can be there at a time, and one being traced.
StrokeBound(ps) == TransitionMs(ps) \div FrameMs + 2

ZeroLengthNext(rec) ==
    /\ rec.pc = "blank"
    /\ LET dev == DevicePoints(ClosedPoints(rec.shapes[rec.idx]), rec.width, rec.height)
       IN  Len(dev) > 1 /\ getTotalLength(dev) = 0

\* C25: when the blanking wait of a shape of length zero ends in the live
\* scheduler, the shape is skipped: the step starts no trace, adds no stroke
\* and leaves no other element in the display, and the beam marker stays
\* hidden.
ZeroLengthSkipped ==
    [][(/\ last'.kind = "blank" /\ ~last'.stale
        /\ run.used /\ run.isMounted /\ run.attached
        /\ ZeroLengthNext(run)) =>
           /\ ~Tracing(run')
           /\ svg'.strokes = svg.strokes
           /\ svg'.inert = svg.inert
           /\ svg'.beam.opacity = 0
      ]_vars

\* ------------------------------------------------------------------------
\* What an invalidated scheduler still has pending
\* ------------------------------------------------------------------------
\* the closures suspended in a timer or in a transition's end
Suspended(rn, od) == {r \in Used({rn} \cup od) : r.pc \in PendingPcs}

\* the timers and transitions pending: one per suspended closure, one per
\* stroke or dot in a transition, one for the fade of the raster group
Pending(rn, od, dom) ==
    Cardinality(Suspended(rn, od))
      + Cardinality({k \in DOMAIN dom.strokes : Transiting(dom.strokes[k])})
      + (IF dom.rasterGroup.fading THEN 1 ELSE 0)

\* C26: an invalidated scheduler starts no timer and no transition.  The
\* step that invalidates a scheduler leaves of it and of the earlier ones
\* only timers that were pending before the step (the interrupted trace and
\* the interrupted sweep end there); and every later step of an invalidated
\* scheduler resolves one pending timer and starts nothing: fewer timers
\* and transitions are pending after it, and no closure is suspended that
\* was not before.
InvalidatedStartsNothing ==
    [][/\ (last'.kind \in {"input", "teardown"}) =>
             \A r \in old' : /\ r.pc \in TimerPcs
                              /\ \E q \in Pool : q.pc = r.pc
       /\ last'.stale =>
             /\ Pending(run', old', svg') < Pending(run, old, svg)
             /\ Suspended(run', old') \subseteq Suspended(run, old)
             /\ run' = run
      ]_vars

\* the inter-cycle timer of an invalidated scheduler has resolved while the
\* scheduler that replaced it is running
StaleCycleTimerResolved ==
    /\ last.stale /\ last.kind = "cycle"
    /\ run.used /\ run.isMounted /\ run.pc \in PendingPcs

\* ------------------------------------------------------------------------
\* Supersession during a trace
\* ------------------------------------------------------------------------
\* C27: when an input change or the teardown interrupts a running trace,
\* the rejection of the interrupted beam transition is absorbed and raised
\* nowhere, the interrupted scheduler ends there (it leaves nothing pending:
\* the closures still suspended were suspended before, in timers), and
\* after an input change at a viewport of non-zero area the scheduler of the
\* new mode and scene is started as after any other change.
SupersessionAbsorbed ==
    [][/\ last'.rejection # "raised"
       /\ (last'.kind \in {"input", "teardown"} /\ run.used /\ Tracing(run)) =>
             /\ last'.rejection = "absorbed"
             /\ Suspended(NoRun, old') \subseteq Suspended(NoRun, Detached(old) \cup old)
             /\ \A r \in old' : ~r.isMounted /\ r.pc # "trace"
             /\ (last'.kind = "input" /\ ~ZeroArea(dimensions')) =>
                   Started(run', mode', Scene')
      ]_vars

\* a change of the display mode has interrupted the trace of the ship and
\* the raster scheduler sweeps
TraceSupersededByRaster ==
    /\ last.kind = "input" /\ last.rejection = "absorbed"
    /\ Started(run, "RASTER", Scene)
    /\ svg.scanline.sweeping

\* ------------------------------------------------------------------------
\* The props of an activation
\* ------------------------------------------------------------------------
Finite(d) == d # NaN /\ d > 0

\* C28: the scheduler that is running was started with a beam speed that is
\* an integer of 1..10 and a persistence that is a positive number, and the
\* delays and durations computed from them (blanking wait, inter-cycle
\* wait, trace of a path of some length, decay, sweep) are finite and
\* positive.
ActivationPropsValid ==
    (run.used /\ run.isMounted) =>
        /\ run.beamSpeed \in SpeedRange
        /\ Finite(run.persistence)
        /\ Finite(blankingDelay(run.beamSpeed))
        /\ Finite(interCycleDelay(run.beamSpeed))
        /\ Finite(scanDuration(run.beamSpeed))
        /\ \A len \in 1..MaxLen : Finite(drawDuration(len, run.beamSpeed))

\* ------------------------------------------------------------------------
\* The flag of an activation
\* ------------------------------------------------------------------------
\* C29: the flag of an activation is true from its activation until the
\* next input change or the teardown and false ever after.  No step makes
\* the flag of a superseded closure true; the flag of the running scheduler
\* is cleared by no step other than an input change or the teardown; a
\* scheduler with a true flag appears only by an input change, and it is
\* not one of the closures that were there before: those keep their false
\* flags beside it.
FlagMonotone ==
    [][/\ \A r \in old' : ~r.isMounted
       /\ (run.isMounted /\ ~run'.isMounted) => last'.kind \in {"input", "teardown"}
       /\ (run'.isMounted /\ last'.kind \notin {"input", "init"}) =>
             /\ run.isMounted
             /\ Stale \cap Used({run'}) = {}
       /\ (run.used /\ last'.kind \in {"input", "teardown"}) =>
             /\ run' \notin old'
             /\ (run.isMounted /\ run.pc \in TimerPcs) =>
                   \E r \in old' : r.pc = run.pc /\ ~r.isMounted
      ]_vars

\* the scheduler started by the latest input change runs beside two
\* superseded closures, whose timers are still pending
FreshFlagBesideInvalidated ==
    /\ last.kind = "input"
    /\ run.used /\ run.isMounted
    /\ Cardinality(old) >= 2

\* ------------------------------------------------------------------------
\* One pass over the shapes at a time
\* ------------------------------------------------------------------------
\* C30: the running vector scheduler is at one shape of one pass.  The
\* shape it is at changes only to a later shape of the scene, still in the
\* same pass; or the pass is over, no shape being left, and the timer of the
\* next invocation is scheduled; or that timer has resolved and the next
\* pass begins at the first shape.  So the next invocation is scheduled only
\* when the pass has been through all shapes, and no pass begins while
\* another is under way.
OneCycleInFlight ==
    [][(/\ run.used /\ run.isMounted /\ run.mode = "VECTOR"
        /\ last'.kind \notin {"input", "teardown"}) =>
           /\ run'.isMounted /\ run'.shapes = run.shapes
           /\ (run'.pc = "cycle") = (run'.idx = 0 /\ run.shapes # <<>>)
           /\ (run'.idx # run.idx) =>
                 \/ /\ run.idx >= 1 /\ run'.idx > run.idx
                    /\ run'.pc = "blank"
                    /\ run'.idx = NextShape(run.shapes, run.idx + 1)
                 \/ /\ run.idx >= 1 /\ run'.pc = "cycle"
                    /\ NextShape(run.shapes, run.idx + 1) = 0
                 \/ /\ run.pc = "cycle" /\ run.rem = 0
                    /\ last'.kind = "cycle" /\ ~last'.stale
                    /\ run'.pc = "blank"
                    /\ run'.idx = NextShape(run.shapes, 1)
      ]_vars

\* a later pass over a scene of several shapes is in the blanking wait of a
\* shape after the first, while a stroke of the pass before still decays
SecondPassOverSeveralShapes ==
    /\ run.used /\ run.isMounted /\ run.mode = "VECTOR"
    /\ Len(run.shapes) >= 2 /\ run.idx >= 2
    /\ run.pc = "blank"
    /\ \E k \in DOMAIN svg.strokes : svg.strokes[k].idx >= run.idx

NoPoints == [fn |-> "points", kept |-> <<>>]

PointsInit ==
    /\ DisplayInit
    /\ probe = NoPoints

PointAdded(pos) ==
    /\ contentMode = "DRAW"
    /\ Pointer(pos)
    /\ probe' = [fn |-> "points",
                 kept |-> Append(probe.kept, customPoints'[Len(customPoints')])]

PointsCleared ==
    /\ Clear
    /\ probe' = NoPoints

PointsNext ==
    \/ \E dim \in DrawViewports : Resize(dim)
    \/ \E m \in DisplayModes : SetMode(m)
    \/ \E cm \in ContentModes : SetContentMode(cm)
    \/ \E text \in Texts : SetCustomText(text)
    \/ \E pos \in ClickPositions : PointAdded(pos)
    \/ PointsCleared

PointsSpec == PointsInit /\ [][PointsNext]_vars

\* C32: a step that changes the display mode, the content mode, the size of
\* the viewport or the text leaves the draw points as they are; the points
\* change only in draw mode, by one point appended or by all removed; so
\* they are at any time what the clicks and the clear made of them, and the
\* effect run by a switch to draw mode is given exactly those, in their
\* order, as the shape to show.
DrawPointsKept ==
    [][/\ (\/ mode' # mode \/ contentMode' # contentMode
           \/ dimensions' # dimensions \/ customText' # customText) =>
             customPoints' = customPoints
       /\ (customPoints' # customPoints) =>
             /\ contentMode = "DRAW" /\ contentMode' = "DRAW"
             /\ \/ customPoints' = <<>>
                \/ /\ Len(customPoints') = Len(customPoints) + 1
                   /\ SubSeq(customPoints', 1, Len(customPoints)) = customPoints
       /\ customPoints' = probe'.kept
       /\ (contentMode' = "DRAW" /\ contentMode # "DRAW" /\ run'.used) =>
             /\ run'.shapes = DrawScene(probe.kept)
             /\ (mode' = "VECTOR") => svg'.vertices = Len(probe.kept)
      ]_vars

\* draw mode again, in raster mode, with the text edited and the viewport
\* narrowed since the first click: the point of that click is shown first,
\* the point of a click in the narrow viewport second
DrawPointsAfterSwitches ==
    /\ contentMode = "DRAW" /\ mode = "RASTER" /\ customText = ""
    /\ dimensions = <<40, 140>>
    /\ Len(customPoints) = 2
    /\ customPoints[1][1] = 100 /\ customPoints[2][1] = 50
    /\ run.used /\ run.shapes = DrawScene(customPoints)

\* ------------------------------------------------------------------------
\* The explanation of the display mode (App, "Initial explanation fetch
\* when mode changes")
\* ------------------------------------------------------------------------
MaxRequests == 4      \* runs of the explanation effect

\* what the request to the model API comes to: a text, no text, an exception
ApiResults == {"text", "", "throws"}

\* generateVectorExplanation never rejects: an exception is caught and a
\* missing text replaced
generateVectorExplanation(m, result) ==
    IF result = "throws"
    THEN "SYSTEM ERROR: Could not retrieve data from the mainframe."
    ELSE IF result = ""
         THEN "Analysis failed. Signal lost."
         ELSE IF m = "VECTOR" THEN "how a VECTOR display works"
              ELSE "how a RASTER display works"

\* explanation and loading are the states of App; from is the run of the
\* effect whose request set the explanation (0: none yet); event is what
\* happened last
NoExplanation ==
    [fn |-> "explain", event |-> "none", issued |-> 0,
     live |-> [id |-> 0, mode |-> "NONE", pending |-> FALSE],
     stale |-> {},
     explanation |-> [text |-> "Initializing system... Select a mode to begin analysis.",
                      from |-> 0],
     loading |-> FALSE]

\* the cleanup of the previous run of the effect (isMounted = false) and
\* the next run: setLoading(true) and the request for mode m
fetchExplanation(p, m) ==
    [p EXCEPT !.event = "request",
              !.issued = @ + 1,
              !.stale = IF p.live.pending
                        THEN @ \cup {[id |-> p.live.id, mode |-> p.live.mode]}
                        ELSE @,
              !.live = [id |-> p.issued + 1, mode |-> m, pending |-> TRUE],
              !.loading = TRUE]

\* the continuation after the await, in the run id of the effect
ReceivedNoCheck(p, id, text) ==
    [p EXCEPT !.event = "shown",
              !.explanation = [text |-> text, from |-> id],
              !.loading = FALSE,
              !.live.pending = IF id = p.live.id THEN FALSE ELSE @,
              !.stale = {r \in @ : r.id # id}]

Received(p, id, text) ==
    IF id = p.live.id
    THEN [p EXCEPT !.event = "shown",
                   !.explanation = [text |-> text, from |-> id],
                   !.loading = FALSE,
                   !.live.pending = FALSE]
    ELSE [p EXCEPT !.event = "ignored",
                   !.stale = {r \in @ : r.id # id}]

ExplainInit ==
    /\ DisplayInit
    /\ probe = fetchExplanation(NoExplanation, mode)

ModeButton(m) ==
    /\ m # mode
    /\ probe.issued < MaxRequests
    /\ mode' = m
    /\ Rerender(m, contentMode, customPoints, customText, beamSpeed, persistence, dimensions)
    /\ probe' = fetchExplanation(probe, m)
    /\ UNCHANGED <<contentMode, customPoints, customText, beamSpeed, persistence, dimensions>>

\* the request of the current run of the effect resolves
Response(result) ==
    /\ probe.live.pending
    /\ probe' = Received(probe, probe.live.id,
                         generateVectorExplanation(probe.live.mode, result))
    /\ UNCHANGED display

\* the request of an earlier run of the effect resolves
LateResponse(req, result) ==
    /\ req \in probe.stale
    /\ probe' = Received(probe, req.id, generateVectorExplanation(req.mode, result))
    /\ UNCHANGED display

ExplainNext ==
    \/ \E m \in DisplayModes : ModeButton(m)
    \/ \E result \in ApiResults : Response(result)
    \/ \E req \in probe.stale : \E result \in ApiResults : LateResponse(req, result)

ExplainSpec == ExplainInit /\ [][ExplainNext]_vars

\* C33: the response to the request of an earlier mode changes neither the
\* explanation nor loading; and when the request of the latest mode has
\* resolved, whether with a text or with a failure, the explanation shown is
\* what that request returned for that mode and loading is false, whichever
\* earlier requests resolved before or after it.
LatestExplanationShown ==
    [][/\ probe'.live.mode = mode'
       /\ probe'.live.pending => probe'.loading
       /\ (~probe'.live.pending) =>
             /\ ~probe'.loading
             /\ probe'.explanation.from = probe'.live.id
             /\ \E result \in ApiResults :
                   probe'.explanation.text = generateVectorExplanation(mode', result)
       /\ (probe'.stale # probe.stale /\ probe'.issued = probe.issued) =>
             /\ probe'.event = "ignored"
             /\ probe'.explanation = probe.explanation
             /\ probe'.loading = probe.loading
      ]_vars

\* the request of the latest mode has failed and is shown as failed, and
\* the response to the request of the mode before has just come in
LateResponseAfterLatest ==
    /\ probe.fn = "explain" /\ probe.event = "ignored"
    /\ probe.issued >= 2 /\ ~probe.live.pending
    /\ probe.stale = {}
    /\ probe.explanation.from = probe.issued
    /\ probe.explanation.text = generateVectorExplanation(mode, "throws")
    /\ ~probe.loading

====
